---- MODULE Spec2Model ----
(***************************************************************************)
(* Model of spark_plan_viz: the plan walker _parse_spark_plan (with its    *)
(* nested helpers _get_metric_values, _get_output_info and _walk_node) and *)
(* the entry point visualize_plan.                                         *)
(*                                                                         *)
(* The host plan (the JVM SparkPlan reached through Py4J) is an input: a   *)
(* function from node ids to the answers the node's accessors give, which  *)
(* for every accessor is either a value or a raised exception.  Node names *)
(* are sequences of CamelCase words, so that the substring tests of the    *)
(* walker are computed and not assumed.                                    *)
(***************************************************************************)
EXTENDS Integers, Sequences, FiniteSets, TLC

VARIABLES
    df,         \* the dataframe handed to the program: entry access + host plan
    pc,         \* position of the running call
    result,     \* what a direct call of _parse_spark_plan gave its caller
    hostCalls,  \* the host accessors the walk called, in order
    notebook,   \* visualize_plan's notebook argument
    tree_data,  \* visualize_plan's local tree_data
    effects,    \* visualize_plan's outward actions, in order
    raised,     \* the exception visualize_plan let through, or NoExc
    stack       \* the frames of _walk_node under way, the innermost last

vars == <<df, pc, result, hostCalls, notebook, tree_data, effects, raised, stack>>

----------------------------------------------------------------------------
(* Bounds of the inputs. *)

MaxNodes == 3
MaxNameLen == 3
MaxAttrs == 2
MaxMetrics == 3
MaxSiblings == 3

Nodes == 1..MaxNodes
Root == 1

----------------------------------------------------------------------------
(* Strings.  A name is a sequence of words; `kw in name` is the test       *)
(* whether kw occurs in it as a contiguous run.                            *)

Contains(name, kw) ==
    \E i \in 1..(Len(name) - Len(kw) + 1) :
        SubSeq(name, i, i + Len(kw) - 1) = kw

NoExc == <<>>
Exc(site, n) == <<site, n>>

TraversalErrorPrefix == "Traversal Error: "
TraversalError(e) == <<TraversalErrorPrefix>> \o e

----------------------------------------------------------------------------
(* Python dicts with string keys, as functions.                            *)

EmptyDict == <<>>
DictSet(d, k, v) == [x \in (DOMAIN d) \cup {k} |-> IF x = k THEN v ELSE d[x]]

----------------------------------------------------------------------------
(* _get_metric_values: the entries read before the iteration raises, less  *)
(* those whose value() raises.  metricsFailAt = 0: the iteration does not  *)
(* raise; k > 0: it raises when k-1 entries have been read.                *)

RECURSIVE MetricsFrom(_, _, _)
MetricsFrom(node, i, metrics) ==
    IF node.metricsFailAt = i THEN metrics
    ELSE IF i > Len(node.metricEntries) THEN metrics
    ELSE LET entry == node.metricEntries[i]
         IN  MetricsFrom(node, i + 1,
                 IF entry.valueFails THEN metrics
                 ELSE DictSet(metrics, entry.name, entry.value))

(* _get_metric_values that gives up the whole map when a value() raises.   *)
_get_metric_values_all_or_nothing(node) ==
    LET read == IF node.metricsFailAt = 0 THEN DOMAIN node.metricEntries
                ELSE 1..(node.metricsFailAt - 1)
    IN  IF \E i \in read : node.metricEntries[i].valueFails THEN EmptyDict
        ELSE MetricsFrom(node, 1, EmptyDict)

_get_metric_values(node) == MetricsFrom(node, 1, EmptyDict)

(* _get_output_info: the attributes appended before the iteration raises.  *)
RECURSIVE OutputsFrom(_, _, _)
OutputsFrom(node, i, outputs) ==
    IF node.outputFailAt = i THEN outputs
    ELSE IF i > Len(node.attrs) THEN outputs
    ELSE OutputsFrom(node, i + 1, Append(outputs, node.attrs[i]))

_get_output_info(node) == OutputsFrom(node, 1, <<>>)

----------------------------------------------------------------------------
(* _walk_node, in pieces.  Every piece returns a record with `raised`; an  *)
(* exception carries `exc` and the accessor calls made so far.             *)

(* GetDescription that tries the simple string before the verbose one.    *)
GetDescriptionSimpleFirst(node, n) ==
    IF ~node.simpleFails
    THEN [raised |-> FALSE, value |-> node.descs.simple,
          calls |-> <<<<n, "simpleString">>>>]
    ELSE IF ~node.verboseFails
    THEN [raised |-> FALSE, value |-> node.descs.verbose,
          calls |-> <<<<n, "simpleString">>, <<n, "verboseStringWithSuffix">>>>]
    ELSE IF ~node.toStringFails
    THEN [raised |-> FALSE, value |-> node.descs.generic,
          calls |-> <<<<n, "simpleString">>, <<n, "verboseStringWithSuffix">>,
                      <<n, "toString">>>>]
    ELSE [raised |-> TRUE, exc |-> Exc("toString", n),
          calls |-> <<<<n, "simpleString">>, <<n, "verboseStringWithSuffix">>,
                      <<n, "toString">>>>]

(* description = verboseStringWithSuffix(), else simpleString(), else      *)
(* toString(), whose exception nothing catches.                            *)
GetDescription(node, n) ==
    IF ~node.verboseFails
    THEN [raised |-> FALSE, value |-> node.descs.verbose,
          calls |-> <<<<n, "verboseStringWithSuffix">>>>]
    ELSE IF ~node.simpleFails
    THEN [raised |-> FALSE, value |-> node.descs.simple,
          calls |-> <<<<n, "verboseStringWithSuffix">>, <<n, "simpleString">>>>]
    ELSE IF ~node.toStringFails
    THEN [raised |-> FALSE, value |-> node.descs.generic,
          calls |-> <<<<n, "verboseStringWithSuffix">>, <<n, "simpleString">>,
                      <<n, "toString">>>>]
    ELSE [raised |-> TRUE, exc |-> Exc("toString", n),
          calls |-> <<<<n, "verboseStringWithSuffix">>, <<n, "simpleString">>,
                      <<n, "toString">>>>]

(* NodeType with the join test moved to the front.                         *)
NodeTypeJoinFirst(name) ==
    IF Contains(name, <<"Join">>) THEN "join"
    ELSE IF Contains(name, <<"Exchange">>) \/ Contains(name, <<"Shuffle">>) THEN "shuffle"
    ELSE IF Contains(name, <<"Scan">>) THEN "scan"
    ELSE IF Contains(name, <<"Filter">>) THEN "filter"
    ELSE IF Contains(name, <<"Aggregate">>) THEN "aggregate"
    ELSE IF Contains(name, <<"Sort">>) THEN "sort"
    ELSE IF Contains(name, <<"Project">>) THEN "project"
    ELSE IF Contains(name, <<"Window">>) THEN "window"
    ELSE IF Contains(name, <<"Union">>) THEN "union"
    ELSE "other"

NodeType(name) ==
    IF Contains(name, <<"Exchange">>) \/ Contains(name, <<"Shuffle">>) THEN "shuffle"
    ELSE IF Contains(name, <<"Scan">>) \/ Contains(name, <<"Batch", "Scan">>)
            \/ Contains(name, <<"File", "Scan">>) THEN "scan"
    ELSE IF Contains(name, <<"Join">>) THEN "join"
    ELSE IF Contains(name, <<"Filter">>) THEN "filter"
    ELSE IF Contains(name, <<"Aggregate">>) THEN "aggregate"
    ELSE IF Contains(name, <<"Sort">>) THEN "sort"
    ELSE IF Contains(name, <<"Project">>) THEN "project"
    ELSE IF Contains(name, <<"Window">>) THEN "window"
    ELSE IF Contains(name, <<"Union">>) THEN "union"
    ELSE "other"

(* ResolutionRule with the query-stage test before the adaptive one.       *)
ResolutionRuleStageFirst(name) ==
    IF Contains(name, <<"Query", "Stage">>) THEN "plan"
    ELSE IF Contains(name, <<"Adaptive", "Spark", "Plan">>) THEN "executedPlan"
    ELSE IF Contains(name, <<"Reused", "Exchange">>) THEN "child"
    ELSE "children"

(* Which accessor resolves the children of a node of this name.            *)
ResolutionRule(name) ==
    IF Contains(name, <<"Adaptive", "Spark", "Plan">>) THEN "executedPlan"
    ELSE IF Contains(name, <<"Query", "Stage">>) THEN "plan"
    ELSE IF Contains(name, <<"Reused", "Exchange">>) THEN "child"
    ELSE "children"

(* Indirection that goes on to append the node's own child sequence.       *)
IndirectionThenChildren(node, n, accessor) ==
    IF node.targetFails[accessor]
    THEN [raised |-> TRUE, exc |-> Exc(accessor, n), children_nodes |-> <<>>,
          calls |-> <<<<n, accessor>>>>]
    ELSE [raised |-> FALSE,
          children_nodes |-> (IF node.target[accessor] = 0 THEN <<>>
                              ELSE <<node.target[accessor]>>) \o node.kids,
          calls |-> <<<<n, accessor>>>>]

(* One of the single-plan accessors: the plan it returns (0 is None, which *)
(* is falsy and appended nowhere), or the exception it raises.             *)
Indirection(node, n, accessor) ==
    IF node.targetFails[accessor]
    THEN [raised |-> TRUE, exc |-> Exc(accessor, n), children_nodes |-> <<>>,
          calls |-> <<<<n, accessor>>>>]
    ELSE [raised |-> FALSE,
          children_nodes |-> IF node.target[accessor] = 0 THEN <<>>
                             ELSE <<node.target[accessor]>>,
          calls |-> <<<<n, accessor>>>>]

(* StandardTraversal that collects the child sequence back to front.       *)
StandardTraversalReversed(node, n) ==
    LET read == IF node.kidsFailAt = 0 THEN node.kids
                ELSE SubSeq(node.kids, 1, node.kidsFailAt - 1)
    IN  [raised |-> node.kidsFailAt # 0, exc |-> Exc("children", n),
         children_nodes |-> [i \in DOMAIN read |-> read[Len(read) + 1 - i]],
         calls |-> <<<<n, "children">>>>]

(* The standard traversal: the child sequence is read to its end, or until *)
(* the iteration raises (kidsFailAt = k > 0: when k-1 were read).          *)
StandardTraversal(node, n) ==
    IF node.kidsFailAt = 0
    THEN [raised |-> FALSE, children_nodes |-> node.kids,
          calls |-> <<<<n, "children">>>>]
    ELSE [raised |-> TRUE, exc |-> Exc("children", n),
          children_nodes |-> SubSeq(node.kids, 1, node.kidsFailAt - 1),
          calls |-> <<<<n, "children">>>>]

CollectChildren(node, n) ==
    LET rule == ResolutionRule(node.name)
    IN  IF rule = "children" THEN StandardTraversal(node, n)
        ELSE Indirection(node, n, rule)

(* WithError that also drops the children appended so far.                 *)
WithErrorDropsChildren(data, e) ==
    ("error" :> TraversalError(e)) @@ [data EXCEPT !.children = <<>>]

(* data["error"] = f"Traversal Error: {str(e)}"                            *)
WithError(data, e) == ("error" :> TraversalError(e)) @@ data

RECURSIVE WalkNode(_, _)
RECURSIVE WalkChildren(_, _, _, _, _)

(* WalkChildren that goes on to the later children after one has raised.   *)
RECURSIVE WalkChildrenPastFault(_, _, _, _, _)
WalkChildrenPastFault(plan, children_nodes, i, children, calls) ==
    IF i > Len(children_nodes)
    THEN [raised |-> FALSE, children |-> children, calls |-> calls]
    ELSE LET w == WalkNode(plan, children_nodes[i])
         IN  IF w.raised
             THEN LET rest == WalkChildrenPastFault(plan, children_nodes, i + 1,
                                                    children, calls \o w.calls)
                  IN  [raised |-> TRUE, exc |-> w.exc, children |-> rest.children,
                       calls |-> rest.calls]
             ELSE WalkChildrenPastFault(plan, children_nodes, i + 1,
                                        Append(children, w.data), calls \o w.calls)

(* for child in children_nodes: data["children"].append(_walk_node(child)) *)
WalkChildren(plan, children_nodes, i, children, calls) ==
    IF i > Len(children_nodes)
    THEN [raised |-> FALSE, children |-> children, calls |-> calls]
    ELSE LET w == WalkNode(plan, children_nodes[i])
         IN  IF w.raised
             THEN [raised |-> TRUE, exc |-> w.exc, children |-> children,
                   calls |-> calls \o w.calls]
             ELSE WalkChildren(plan, children_nodes, i + 1,
                               Append(children, w.data), calls \o w.calls)

(* WalkNode that walks each child as the iteration yields it: the children *)
(* read before the iteration raised are walked and appended.               *)
WalkNodeEager(plan, n) ==
    LET node == plan[n]
        c0 == <<<<n, "nodeName">>>>
    IN
    IF node.nameFails
    THEN [raised |-> TRUE, exc |-> Exc("nodeName", n), calls |-> c0]
    ELSE
    LET d == GetDescription(node, n) IN
    IF d.raised
    THEN [raised |-> TRUE, exc |-> d.exc, calls |-> c0 \o d.calls]
    ELSE
    LET data == [name |-> node.name,
                 description |-> d.value,
                 output |-> _get_output_info(node),
                 type |-> NodeType(node.name),
                 children |-> <<>>,
                 metrics |-> _get_metric_values(node)]
        c1 == c0 \o d.calls \o <<<<n, "output">>, <<n, "metrics">>>>
        r == CollectChildren(node, n)
        w == WalkChildren(plan, r.children_nodes, 1, <<>>, <<>>)
        filled == [data EXCEPT !.children = w.children]
    IN
    IF w.raised
    THEN [raised |-> FALSE, data |-> WithError(filled, w.exc),
          calls |-> c1 \o r.calls \o w.calls]
    ELSE IF r.raised
    THEN [raised |-> FALSE, data |-> WithError(filled, r.exc),
          calls |-> c1 \o r.calls \o w.calls]
    ELSE [raised |-> FALSE, data |-> filled, calls |-> c1 \o r.calls \o w.calls]

(* _walk_node: the node's fields, then children_nodes collected in full,   *)
(* then the walk of each of them.                                          *)
WalkNode(plan, n) ==
    LET node == plan[n]
        c0 == <<<<n, "nodeName">>>>
    IN
    IF node.nameFails
    THEN [raised |-> TRUE, exc |-> Exc("nodeName", n), calls |-> c0]
    ELSE
    LET d == GetDescription(node, n) IN
    IF d.raised
    THEN [raised |-> TRUE, exc |-> d.exc, calls |-> c0 \o d.calls]
    ELSE
    LET data == [name |-> node.name,
                 description |-> d.value,
                 output |-> _get_output_info(node),
                 type |-> NodeType(node.name),
                 children |-> <<>>,
                 metrics |-> _get_metric_values(node)]
        c1 == c0 \o d.calls \o <<<<n, "output">>, <<n, "metrics">>>>
        r == CollectChildren(node, n)
    IN
    IF r.raised
    THEN [raised |-> FALSE, data |-> WithError(data, r.exc), calls |-> c1 \o r.calls]
    ELSE
    LET w == WalkChildren(plan, r.children_nodes, 1, <<>>, <<>>)
        filled == [data EXCEPT !.children = w.children]
    IN
    IF w.raised
    THEN [raised |-> FALSE, data |-> WithError(filled, w.exc),
          calls |-> c1 \o r.calls \o w.calls]
    ELSE [raised |-> FALSE, data |-> filled, calls |-> c1 \o r.calls \o w.calls]

(* _parse_spark_plan.  What the caller gets: None, a tree, or an exception. *)
None == [kind |-> "None"]
Tree(data) == [kind |-> "tree", data |-> data]
Raised(e) == [kind |-> "raise", exc |-> e]

(* _parse_spark_plan without the except clause.                            *)
_parse_spark_plan_uncaught(d) ==
    IF d.entry # "ok"
    THEN [ret |-> Raised(Exc(d.entry, 0)), calls |-> <<>>]
    ELSE LET w == WalkNode(d.plan, Root)
         IN  [ret |-> IF w.raised THEN Raised(w.exc) ELSE Tree(w.data),
              calls |-> w.calls]

_parse_spark_plan(d) ==
    IF d.entry = "AttributeError"
    THEN [ret |-> None, calls |-> <<>>]
    ELSE IF d.entry # "ok"
    THEN [ret |-> Raised(Exc(d.entry, 0)), calls |-> <<>>]
    ELSE LET w == WalkNode(d.plan, Root)
         IN  [ret |-> IF w.raised THEN Raised(w.exc) ELSE Tree(w.data),
              calls |-> w.calls]

----------------------------------------------------------------------------
(* The host plans the walker is run on.  A node answers every accessor of  *)
(* the introspection surface; children and indirection targets have larger *)
(* ids than their parent, so every plan is a finite DAG rooted at Root.    *)

Accessors == {"executedPlan", "plan", "child"}

Higher(n) == (n + 1)..MaxNodes

(* The sequences without repetition over a set of nodes, in every order.   *)
RECURSIVE SeqsOver(_)
SeqsOver(S) ==
    {<<>>} \cup UNION {{<<x>> \o s : s \in SeqsOver(S \ {x})} : x \in S}

Descs(n) == [verbose |-> <<"verbose", n>>, simple |-> <<"simple", n>>,
             generic |-> <<"generic", n>>]

NoTarget == [a \in Accessors |-> 0]

(* A node on which no accessor raises: a leaf "Filter" with no output      *)
(* attribute and no metric.                                                *)
PlainNode(n) ==
    [name |-> <<"Filter">>, nameFails |-> FALSE,
     verboseFails |-> FALSE, simpleFails |-> FALSE, toStringFails |-> FALSE,
     descs |-> Descs(n),
     attrs |-> <<>>, outputFailAt |-> 0,
     metricEntries |-> <<>>, metricsFailAt |-> 0,
     kids |-> <<>>, kidsFailAt |-> 0,
     target |-> NoTarget, targetFails |-> [a \in Accessors |-> FALSE]]

(* The plans whose node i is drawn from options[i], for the nodes 1..n.    *)
RECURSIVE PlansFrom(_, _)
PlansFrom(options, n) ==
    IF n = 0 THEN {<<>>}
    ELSE {Append(p, o) : p \in PlansFrom(options, n - 1), o \in options[n]}

(* The nodes a walk can reach from n through any accessor.                 *)
RECURSIVE ReachableFrom(_, _)
ReachableFrom(plan, n) ==
    {n} \cup UNION {ReachableFrom(plan, m) :
                       m \in {plan[n].kids[i] : i \in DOMAIN plan[n].kids}
                             \cup ({plan[n].target[a] : a \in Accessors} \ {0})}

Dataframe(plan) == [entry |-> "ok", plan |-> plan]

Pending == [kind |-> "pending"]

InitOn(inputs) ==
    /\ df \in inputs
    /\ pc = "idle"
    /\ result = Pending
    /\ hostCalls = <<>>
    /\ notebook = FALSE
    /\ tree_data = Pending
    /\ effects = <<>>
    /\ raised = NoExc
    /\ stack = <<>>

(* A direct call of _parse_spark_plan(df), as the tests make it.           *)
CallParse ==
    /\ pc = "idle"
    /\ LET r == _parse_spark_plan(df)
       IN  /\ result' = r.ret
           /\ hostCalls' = r.calls
    /\ pc' = "returned"
    /\ UNCHANGED <<df, notebook, tree_data, effects, raised, stack>>

----------------------------------------------------------------------------
(* Plans with faults: every node is a "Filter" with any child sequence or  *)
(* an "AdaptiveSparkPlan" with any final plan, and has at most one fault:  *)
(* its construction raises (the name accessor, or all three description    *)
(* accessors), or the resolution of its children raises (for the child     *)
(* sequence, at any point of the iteration).  A node the root does not     *)
(* reach is no part of the plan and is left plain.                         *)

AdaptiveName == <<"Adaptive", "Spark", "Plan">>

AllDescriptionsFail(node) ==
    [node EXCEPT !.verboseFails = TRUE, !.simpleFails = TRUE, !.toStringFails = TRUE]

FaultyFilters(n) ==
    UNION {
        {[PlainNode(n) EXCEPT !.kids = ks],
         [PlainNode(n) EXCEPT !.kids = ks, !.nameFails = TRUE],
         AllDescriptionsFail([PlainNode(n) EXCEPT !.kids = ks])}
        \cup {[PlainNode(n) EXCEPT !.kids = ks, !.kidsFailAt = k] :
                 k \in 1..(Len(ks) + 1)}
        : ks \in SeqsOver(Higher(n))}

FaultyAdaptives(n) ==
    UNION {
        LET base == [PlainNode(n) EXCEPT !.name = AdaptiveName,
                                         !.target.executedPlan = t]
        IN  {base,
             [base EXCEPT !.nameFails = TRUE],
             [base EXCEPT !.targetFails.executedPlan = TRUE]}
        : t \in {0} \cup Higher(n)}

FaultOptions(n) == FaultyFilters(n) \cup FaultyAdaptives(n)

WholePlan(p) ==
    \A n \in Nodes \ ReachableFrom(p, Root) : p[n] = PlainNode(n)

FaultPlans(size) ==
    {p \in PlansFrom([n \in 1..size |-> FaultOptions(n)], size) : WholePlan(p)}

InitFault == InitOn({Dataframe(p) : p \in FaultPlans(MaxNodes)})

NextWalk == CallParse

SpecFault == InitFault /\ [][NextWalk]_vars

----------------------------------------------------------------------------
(* Fault containment (C1).                                                 *)

(* Whether _walk_node(n) gets as far as building its node.                 *)
Constructs(node) ==
    ~node.nameFails /\ ~(node.verboseFails /\ node.simpleFails /\ node.toStringFails)

(* The exception of a node whose construction raises.                      *)
ConstructionExc(node, n) ==
    IF node.nameFails THEN Exc("nodeName", n) ELSE Exc("toString", n)

(* The host nodes the rule of node n yields when its accessor does not     *)
(* raise.                                                                  *)
HostChildren(node) ==
    LET rule == ResolutionRule(node.name)
    IN  IF rule = "children" THEN node.kids
        ELSE IF node.target[rule] = 0 THEN <<>> ELSE <<node.target[rule]>>

ResolutionFails(node) ==
    LET rule == ResolutionRule(node.name)
    IN  IF rule = "children" THEN node.kidsFailAt # 0 ELSE node.targetFails[rule]

ResolutionExc(node, n) == Exc(ResolutionRule(node.name), n)

(* The index of the first child whose construction raises, 0 if none.      *)
FirstFailing(plan, cs) ==
    IF \E i \in DOMAIN cs : ~Constructs(plan[cs[i]])
    THEN CHOOSE i \in DOMAIN cs :
            /\ ~Constructs(plan[cs[i]])
            /\ \A j \in 1..(i - 1) : Constructs(plan[cs[j]])
    ELSE 0

(* The fault that the resolution of the children of node n meets in plan:  *)
(* the exception, and how many children were appended before it.           *)
ChildFault(plan, n) ==
    LET node == plan[n]
        cs == HostChildren(node)
        f == FirstFailing(plan, cs)
    IN  IF ResolutionFails(node)
        THEN [met |-> TRUE, exc |-> ResolutionExc(node, n), appended |-> 0]
        ELSE IF f # 0
        THEN [met |-> TRUE, exc |-> ConstructionExc(plan[cs[f]], cs[f]),
              appended |-> f - 1]
        ELSE [met |-> FALSE, exc |-> NoExc, appended |-> Len(cs)]

(* The plan with the one accessor fault behind exception e taken away.     *)
Repaired(plan, e) ==
    LET n == e[2]
    IN  IF e[1] = "nodeName" THEN [plan EXCEPT ![n].nameFails = FALSE]
        ELSE IF e[1] = "toString" THEN [plan EXCEPT ![n].toStringFails = FALSE]
        ELSE IF e[1] = "children" THEN [plan EXCEPT ![n].kidsFailAt = 0]
        ELSE [plan EXCEPT ![n].targetFails[e[1]] = FALSE]

(* What the tree t, walked from host node n of the repaired plan, must     *)
(* become under the fault e of plan: every node that meets e keeps its own *)
(* fields and the children appended before e and carries the annotation,   *)
(* and nothing else changes.                                               *)
Annotated(t, e) ==
    [f \in (DOMAIN t) \cup {"error"} |->
        IF f = "error" THEN <<"Traversal Error: ">> \o e ELSE t[f]]

RECURSIVE UnderFault(_, _, _, _)
UnderFault(plan, e, n, t) ==
    LET cf == ChildFault(plan, n)
        cs == HostChildren(plan[n])
        kept == IF cf.met /\ cf.exc = e THEN cf.appended ELSE Len(t.children)
        below == [i \in 1..kept |-> UnderFault(plan, e, cs[i], t.children[i])]
    IN  IF cf.met /\ cf.exc = e
        THEN Annotated([t EXCEPT !.children = below], e)
        ELSE [t EXCEPT !.children = below]

MeetsFault(plan, e) == \E n \in Nodes : ChildFault(plan, n).met /\ ChildFault(plan, n).exc = e

FaultsMet(plan) == {ChildFault(plan, n).exc : n \in {m \in Nodes : ChildFault(plan, m).met}}

ContainedIn(plan, e, ret) ==
    LET w == WalkNode(Repaired(plan, e), Root)
    IN  IF w.raised THEN ret.kind = "raise"
        ELSE ret = Tree(UnderFault(plan, e, Root, w.data))

(* C1: a fault met while resolving the children of a node N leaves the     *)
(* returned tree as it is without the fault, except that N carries the     *)
(* error annotation and keeps exactly the children appended before the     *)
(* fault; its ancestors and siblings are present and unchanged.            *)
C1_FaultContainment ==
    (pc = "returned" /\ df.entry = "ok") =>
        \A e \in FaultsMet(df.plan) : ContainedIn(df.plan, e, result)

(* A node with a sibling whose child resolution raised, and a root that    *)
(* kept the child appended before a later child's fault.                   *)
C1_Witness ==
    /\ pc = "returned"
    /\ result.kind = "tree"
    /\ Len(result.data.children) = 2
    /\ "error" \notin DOMAIN result.data
    /\ "error" \in DOMAIN result.data.children[1]
    /\ "error" \notin DOMAIN result.data.children[2]

----------------------------------------------------------------------------
(* Plans with failing field accessors: one node, as root or as the only    *)
(* child of a plain root, on which the name accessor, any of the three     *)
(* description accessors, the output iteration (at any point), the metric  *)
(* iteration (at any point) and any metric's value() may raise.            *)

Attrs == <<"id#123", "name#456", "dept#789">>
(* The names of a metric map's entries, in the order of its iteration.     *)
MetricNames == <<"numRows", "time", "size", "spill">>

OutputChoices(maxAttrs) ==
    UNION {{[attrs |-> SubSeq(Attrs, 1, len), outputFailAt |-> k] :
               k \in 0..(len + 1)} : len \in 0..maxAttrs}

RECURSIVE EntrySeqs(_)
EntrySeqs(len) ==
    IF len = 0 THEN {<<>>}
    ELSE {Append(es, [name |-> MetricNames[len], value |-> len, valueFails |-> f]) :
             es \in EntrySeqs(len - 1), f \in BOOLEAN}

MetricChoices(maxMetrics) ==
    UNION {{[metricEntries |-> es, metricsFailAt |-> k] :
               es \in EntrySeqs(len), k \in 0..(len + 1)} : len \in 0..maxMetrics}

FieldNodes(n) ==
    {[PlainNode(n) EXCEPT !.nameFails = nf,
                          !.verboseFails = vf, !.simpleFails = sf, !.toStringFails = tf,
                          !.attrs = o.attrs, !.outputFailAt = o.outputFailAt,
                          !.metricEntries = m.metricEntries,
                          !.metricsFailAt = m.metricsFailAt] :
        nf \in BOOLEAN, vf \in BOOLEAN, sf \in BOOLEAN, tf \in BOOLEAN,
        o \in OutputChoices(MaxAttrs), m \in MetricChoices(MaxMetrics)}

(* The join of the end-to-end scenario of test_parsing.py and the spec.    *)
JoinDescription ==
    <<"BroadcastHashJoin", " ", "[id#0],", " ", "[user_id#10],", " ",
      "LeftOuter", " ", "Join", ",", " ", "BuildSide:", " ", "Left">>

JoinNode ==
    [PlainNode(Root) EXCEPT !.name = <<"Broadcast", "Hash", "Join">>,
                            !.descs.verbose = JoinDescription]

FieldPlans(root) ==
    {<<node>> : node \in FieldNodes(root)}
    \cup {<<[PlainNode(root) EXCEPT !.kids = <<root + 1>>], node>> :
             node \in FieldNodes(root + 1)}
    \cup {<<JoinNode>>}

InitFields == InitOn({Dataframe(p) : p \in FieldPlans(Root)})

SpecFields == InitFields /\ [][NextWalk]_vars

(* The nodes of a tree, the root included.                                 *)
RECURSIVE TreeNodes(_)
TreeNodes(t) ==
    {t} \cup UNION {TreeNodes(t.children[i]) : i \in DOMAIN t.children}

(* C2 as claimed: whichever single accessors of a node raise, the walk     *)
(* returns a tree that holds a node for every node of the plan and no      *)
(* node of it is charged with the failure.                                 *)
C2_FieldFaultsNeverEscalate ==
    (pc = "returned" /\ df.entry = "ok") =>
        /\ result.kind = "tree"
        /\ Cardinality({t.description : t \in TreeNodes(result.data)}) = Len(df.plan)
        /\ \A t \in TreeNodes(result.data) : "error" \notin DOMAIN t

(* C7 as claimed: every node of the returned tree has the fields name,     *)
(* description, output, type, key_info, children and metrics, and error    *)
(* besides only when a traversal fault was recorded on it.                 *)
NodeFields == {"name", "description", "output", "type", "key_info", "children", "metrics"}

C7_OutputShape ==
    (pc = "returned" /\ result.kind = "tree") =>
        \A t \in TreeNodes(result.data) :
            /\ NodeFields \subseteq DOMAIN t
            /\ DOMAIN t \subseteq NodeFields \cup {"error"}

(* The join-type extractor that test_parsing.py imports: the first of the  *)
(* join types that optional whitespace and the literal Join follow.        *)
JoinTypes == {"Inner", "LeftOuter", "RightOuter", "FullOuter", "LeftSemi",
              "LeftAnti", "Cross"}

JoinTypeAt(description, i) ==
    /\ description[i] \in JoinTypes
    /\ \E j \in (i + 1)..Len(description) :
          /\ description[j] = "Join"
          /\ \A k \in (i + 1)..(j - 1) : description[k] = " "

_extract_join_type(description) ==
    IF \E i \in DOMAIN description : JoinTypeAt(description, i)
    THEN description[CHOOSE i \in DOMAIN description :
                        /\ JoinTypeAt(description, i)
                        /\ \A j \in 1..(i - 1) : ~JoinTypeAt(description, j)]
    ELSE "None"

(* C8 as claimed: the BroadcastHashJoin node of the scenario is emitted    *)
(* with type join and the facts joinType (the extractor's), condition,     *)
(* isBroadcast and buildSide.                                              *)
C8_JoinScenario ==
    (pc = "returned" /\ result.kind = "tree") =>
        \A t \in TreeNodes(result.data) :
            (t.name = <<"Broadcast", "Hash", "Join">> /\ t.description = JoinDescription) =>
                /\ t.type = "join"
                /\ _extract_join_type(t.description) = "LeftOuter"
                /\ "key_info" \in DOMAIN t
                /\ t.key_info = [joinType |-> _extract_join_type(t.description),
                                 condition |-> "Left", isBroadcast |-> TRUE,
                                 buildSide |-> "Left"]

----------------------------------------------------------------------------
(* Plans with indirections and no fault: every node is a "Filter" with any *)
(* child sequence, or has one of the names below, a child sequence that is *)
(* empty or holds every later node, and single-plan accessors that answer  *)
(* differently from one another wherever a later node exists.              *)

IndirectionNames ==
    {AdaptiveName,
     <<"Shuffle", "Query", "Stage">>,
     <<"Reused", "Exchange">>,
     <<"Adaptive", "Spark", "Plan", "Query", "Stage">>,
     <<"Reused", "Exchange", "Query", "Stage">>}

(* The answer after t in the round 0 (None), n+1, ..., MaxNodes.           *)
NextAnswer(n, t) ==
    IF t = 0 THEN (IF n < MaxNodes THEN n + 1 ELSE 0)
    ELSE IF t = MaxNodes THEN 0 ELSE t + 1

Answers(n, t) ==
    [a \in Accessors |->
        IF a = "executedPlan" THEN t
        ELSE IF a = "plan" THEN NextAnswer(n, t)
        ELSE NextAnswer(n, NextAnswer(n, t))]

Ascending(n) == [i \in 1..(MaxNodes - n) |-> n + i]

ResolveOptions(n) ==
    {[PlainNode(n) EXCEPT !.kids = ks, !.target = Answers(n, 0)] :
        ks \in SeqsOver(Higher(n))}
    \cup {[PlainNode(n) EXCEPT !.name = nm, !.kids = ks, !.target = Answers(n, t)] :
             nm \in IndirectionNames, ks \in {<<>>, Ascending(n)},
             t \in {0} \cup Higher(n)}

ResolvePlans(size) ==
    {p \in PlansFrom([n \in 1..size |-> ResolveOptions(n)], size) : WholePlan(p)}

InitResolve == InitOn({Dataframe(p) : p \in ResolvePlans(MaxNodes)})

SpecResolve == InitResolve /\ [][NextWalk]_vars

(* The rule the precedence of the spec gives a name: the accessor of the   *)
(* first keyword, in the order below, that the name contains.              *)
Precedence ==
    <<[keyword |-> <<"Adaptive", "Spark", "Plan">>, accessor |-> "executedPlan"],
      [keyword |-> <<"Query", "Stage">>, accessor |-> "plan"],
      [keyword |-> <<"Reused", "Exchange">>, accessor |-> "child"]>>

ExpectedAccessor(name) ==
    LET hits == {i \in DOMAIN Precedence : Contains(name, Precedence[i].keyword)}
    IN  IF hits = {} THEN "children"
        ELSE Precedence[CHOOSE i \in hits : \A j \in hits : i <= j].accessor

(* What an accessor of a node answers: a sequence of host nodes.           *)
AnswerOf(node, accessor) ==
    IF accessor = "children" THEN node.kids
    ELSE IF node.target[accessor] = 0 THEN <<>> ELSE <<node.target[accessor]>>

(* The pairs <<host node, output node>> of a tree t walked from n, when    *)
(* the children of every node are the answer of its expected accessor.     *)
RECURSIVE Emitted(_, _, _)
Emitted(plan, n, t) ==
    LET cs == AnswerOf(plan[n], ExpectedAccessor(plan[n].name))
    IN  {<<n, t>>} \cup
        UNION {Emitted(plan, cs[i], t.children[i]) :
                  i \in (DOMAIN cs) \cap (DOMAIN t.children)}

Range(s) == {s[i] : i \in DOMAIN s}

ResolutionCallsOn(n) ==
    {i \in DOMAIN hostCalls :
        hostCalls[i][1] = n /\ hostCalls[i][2] \in Accessors \cup {"children"}}

WalksOf(n) ==
    {i \in DOMAIN hostCalls : hostCalls[i] = <<n, "nodeName">>}

(* C5: an adaptive node whose final-plan accessor returns X is emitted     *)
(* under its own name, description and metrics with exactly one child, the *)
(* tree of X, whatever its child sequence holds.                           *)
C5_AdaptiveRoot ==
    (pc = "returned" /\ result.kind = "tree") =>
        \A e \in Emitted(df.plan, Root, result.data) :
            LET node == df.plan[e[1]]
                t == e[2]
                X == node.target.executedPlan
            IN  (Contains(node.name, AdaptiveName) /\ X # 0) =>
                    /\ t.children = <<WalkNode(df.plan, X).data>>
                    /\ t.name = node.name
                    /\ t.description = node.descs.verbose
                    /\ t.metrics = _get_metric_values(node)
                    /\ \A i \in ResolutionCallsOn(e[1]) : hostCalls[i][2] # "children"

(* An adaptive root with a final plan other than the nodes of its own      *)
(* child sequence.                                                         *)
C5_Witness ==
    /\ pc = "returned"
    /\ result.kind = "tree"
    /\ Contains(df.plan[Root].name, AdaptiveName)
    /\ df.plan[Root].target.executedPlan = MaxNodes
    /\ df.plan[Root].kids = Ascending(Root)
    /\ Len(df.plan[Root].kids) > 1
    /\ Len(result.data.children) = 1

(* C6: every walked node is resolved through exactly one accessor, the one *)
(* of the first of AdaptiveSparkPlan, QueryStage, ReusedExchange that its  *)
(* name contains and else the child sequence, and its children are the     *)
(* trees of what that accessor answers.                                    *)
C6_IndirectionPrecedence ==
    (pc = "returned" /\ result.kind = "tree") =>
        /\ \A n \in Nodes :
              /\ \A i \in ResolutionCallsOn(n) :
                    hostCalls[i][2] = ExpectedAccessor(df.plan[n].name)
              /\ Cardinality(ResolutionCallsOn(n)) = Cardinality(WalksOf(n))
        /\ \A e \in Emitted(df.plan, Root, result.data) :
              LET cs == AnswerOf(df.plan[e[1]], ExpectedAccessor(df.plan[e[1]].name))
              IN  e[2].children = [i \in DOMAIN cs |-> WalkNode(df.plan, cs[i]).data]

(* A walked node named for both a query stage and an adaptive plan, whose  *)
(* two accessors answer differently, and a walked reused exchange.         *)
C6_Witness ==
    /\ pc = "returned"
    /\ result.kind = "tree"
    /\ \E n \in Nodes :
          /\ WalksOf(n) # {}
          /\ Contains(df.plan[n].name, AdaptiveName)
          /\ Contains(df.plan[n].name, <<"Query", "Stage">>)
          /\ df.plan[n].target.executedPlan # df.plan[n].target.plan
          /\ df.plan[n].target.executedPlan # 0
    /\ \E n \in Nodes :
          /\ WalksOf(n) # {}
          /\ df.plan[n].name = <<"Reused", "Exchange">>
          /\ df.plan[n].target.child # 0

----------------------------------------------------------------------------
(* Node names: every name of at most MaxNameLen of the words below, and    *)
(* the spec's example, each on a plan of one node.                         *)

Words == {"Exchange", "Shuffle", "Scan", "Batch", "File", "Join", "Filter",
          "Aggregate", "Sort", "Project", "Window", "Union", "Hash", "Exec"}

RECURSIVE NamesOfLen(_)
NamesOfLen(len) ==
    IF len = 0 THEN {<<>>}
    ELSE {Append(nm, w) : nm \in NamesOfLen(len - 1), w \in Words}

ShuffleHashJoinExec == <<"Shuffle", "Hash", "Join", "Exec">>

NamesUnderTest(maxLen) ==
    UNION {NamesOfLen(len) : len \in 0..maxLen} \cup {ShuffleHashJoinExec}

InitClassify ==
    InitOn({Dataframe(<<[PlainNode(Root) EXCEPT !.name = nm]>>) : nm \in NamesUnderTest(MaxNameLen)})

SpecClassify == InitClassify /\ [][NextWalk]_vars

(* The categories in the order of the contract, each with its keywords.    *)
Categories ==
    <<[tag |-> "shuffle", keywords |-> {"Exchange", "Shuffle"}],
      [tag |-> "scan", keywords |-> {"Scan"}],
      [tag |-> "join", keywords |-> {"Join"}],
      [tag |-> "filter", keywords |-> {"Filter"}],
      [tag |-> "aggregate", keywords |-> {"Aggregate"}],
      [tag |-> "sort", keywords |-> {"Sort"}],
      [tag |-> "project", keywords |-> {"Project"}],
      [tag |-> "window", keywords |-> {"Window"}],
      [tag |-> "union", keywords |-> {"Union"}]>>

Tags == {Categories[i].tag : i \in DOMAIN Categories} \cup {"other"}

Matches(name, i) == \E kw \in Categories[i].keywords : Contains(name, <<kw>>)

FirstMatchingTag(name) ==
    IF \E i \in DOMAIN Categories : Matches(name, i)
    THEN Categories[CHOOSE i \in DOMAIN Categories :
                       /\ Matches(name, i)
                       /\ \A j \in 1..(i - 1) : ~Matches(name, j)].tag
    ELSE "other"

(* C4: the type of a node is the tag of the first category, in the fixed   *)
(* order, of which its name contains a keyword, and other when there is    *)
(* none: always one of the ten tags, and shuffle for ShuffleHashJoinExec.  *)
C4_CategoryPrecedence ==
    (pc = "returned" /\ result.kind = "tree") =>
        /\ result.data.type = FirstMatchingTag(result.data.name)
        /\ result.data.type \in Tags
        /\ Cardinality(Tags) = 10
        /\ (result.data.name = ShuffleHashJoinExec => result.data.type = "shuffle")

(* A walked node whose name holds the keywords of two categories.          *)
C4_Witness ==
    /\ pc = "returned"
    /\ result.kind = "tree"
    /\ result.data.name = ShuffleHashJoinExec
    /\ Matches(result.data.name, 1)
    /\ Matches(result.data.name, 3)

----------------------------------------------------------------------------
(* visualize_plan, step by step.                                           *)

Entries == {"ok", "AttributeError", "Py4JError"}

VizOptions(n) ==
    {[PlainNode(n) EXCEPT !.kids = ks, !.nameFails = nf] :
        ks \in SeqsOver(Higher(n)), nf \in BOOLEAN}

VizPlans(size) ==
    {p \in PlansFrom([n \in 1..size |-> VizOptions(n)], size) : WholePlan(p)}

Init == InitOn([entry : Entries, plan : VizPlans(MaxNodes)])

(* A test that takes every returned value for a tree.                      *)
TruthyAlways(ret) == ret.kind # "pending"

(* if tree_data: a tree is a dict with keys, None is falsy.                *)
Truthy(ret) == ret.kind = "tree"

(* print("Parsing Spark Plan..."); tree_data = _parse_spark_plan(df)       *)
Visualize(nb) ==
    /\ pc = "idle"
    /\ notebook' = nb
    /\ LET r == _parse_spark_plan(df)
       IN  /\ hostCalls' = r.calls
           /\ effects' = <<"print: Parsing Spark Plan...", "_parse_spark_plan">>
           /\ IF r.ret.kind = "raise"
              THEN /\ raised' = r.ret.exc
                   /\ pc' = "done"
                   /\ UNCHANGED tree_data
              ELSE /\ tree_data' = r.ret
                   /\ pc' = "parsed"
                   /\ UNCHANGED raised
    /\ UNCHANGED <<df, result, stack>>

(* BuildHtml that takes the file branch whatever the notebook argument.    *)
BuildHtmlIgnoresMode ==
    /\ pc = "parsed"
    /\ Truthy(tree_data)
    /\ effects' = effects \o <<"_build_html_string", "print: Generating Visualization...">>
    /\ pc' = "write"
    /\ UNCHANGED <<df, result, hostCalls, notebook, tree_data, raised, stack>>

(* html_content = _build_html_string(tree_data), and the mode's message    *)
BuildHtml ==
    /\ pc = "parsed"
    /\ Truthy(tree_data)
    /\ effects' = effects \o <<"_build_html_string",
                               IF notebook THEN "print: Rendering inline (notebook mode)..."
                               ELSE "print: Generating Visualization...">>
    /\ pc' = IF notebook THEN "import" ELSE "write"
    /\ UNCHANGED <<df, result, hostCalls, notebook, tree_data, raised, stack>>

(* else: print("Failed to generate plan.")                                 *)
ReportFailure ==
    /\ pc = "parsed"
    /\ ~Truthy(tree_data)
    /\ effects' = Append(effects, "print: Failed to generate plan.")
    /\ pc' = "done"
    /\ UNCHANGED <<df, result, hostCalls, notebook, tree_data, raised, stack>>

(* ImportIPython that falls back to the file branch on ImportError.        *)
ImportIPythonFallsBack(installed) ==
    /\ pc = "import"
    /\ IF installed
       THEN /\ pc' = "display"
            /\ UNCHANGED effects
       ELSE /\ pc' = "write"
            /\ effects' = Append(effects, "print: Error: IPython is not installed.")
    /\ UNCHANGED <<df, result, hostCalls, notebook, tree_data, raised, stack>>

(* from IPython.display import IFrame, display, which ImportError may end  *)
ImportIPython(installed) ==
    /\ pc = "import"
    /\ IF installed
       THEN /\ pc' = "display"
            /\ UNCHANGED effects
       ELSE /\ pc' = "done"
            /\ effects' = Append(effects, "print: Error: IPython is not installed.")
    /\ UNCHANGED <<df, result, hostCalls, notebook, tree_data, raised, stack>>

(* display(IFrame(src=data_uri, ...))                                      *)
Display ==
    /\ pc = "display"
    /\ effects' = Append(effects, "display")
    /\ pc' = "done"
    /\ UNCHANGED <<df, result, hostCalls, notebook, tree_data, raised, stack>>

(* with open(output_file, "w") as f: f.write(html_content)                 *)
WriteFile(writable) ==
    /\ pc = "write"
    /\ IF writable
       THEN /\ effects' = Append(effects, "write")
            /\ pc' = "browse"
            /\ UNCHANGED raised
       ELSE /\ raised' = Exc("OSError", 0)
            /\ pc' = "done"
            /\ UNCHANGED effects
    /\ UNCHANGED <<df, result, hostCalls, notebook, tree_data, stack>>

(* print(f"Done! ..."); webbrowser.open("file://" + path)                  *)
OpenBrowser ==
    /\ pc = "browse"
    /\ effects' = effects \o <<"print: Done!", "webbrowser.open">>
    /\ pc' = "done"
    /\ UNCHANGED <<df, result, hostCalls, notebook, tree_data, raised, stack>>

Next ==
    \/ CallParse
    \/ \E nb \in BOOLEAN : Visualize(nb)
    \/ BuildHtml
    \/ ReportFailure
    \/ \E installed \in BOOLEAN : ImportIPython(installed)
    \/ Display
    \/ \E writable \in BOOLEAN : WriteFile(writable)
    \/ OpenBrowser

Spec == Init /\ [][Next]_vars

(* C3: when the access to the executed plan fails for want of the          *)
(* attribute, _parse_spark_plan returns None to its caller, raises         *)
(* nothing and has walked nothing.                                         *)
C3_EntryFailure ==
    (pc = "returned" /\ df.entry = "AttributeError") =>
        /\ result = None
        /\ hostCalls = <<>>

C3_Witness ==
    /\ pc = "returned"
    /\ df.entry = "AttributeError"
    /\ result = None
    /\ ~df.plan[Root].nameFails

Count(s, x) == Cardinality({i \in DOMAIN s : s[i] = x})

(* C10: when the parser gives None, visualize_plan has called it exactly   *)
(* once, lets no exception through, displays nothing, writes no file and   *)
(* opens no browser, up to and including its return.                       *)
C10_TotalFailureNonFatal ==
    (pc \in {"parsed", "import", "display", "write", "browse", "done"}
        /\ tree_data = None) =>
        /\ Count(effects, "_parse_spark_plan") = 1
        /\ raised = NoExc
        /\ Count(effects, "_build_html_string") = 0
        /\ Count(effects, "display") = 0
        /\ Count(effects, "write") = 0
        /\ Count(effects, "webbrowser.open") = 0
        /\ pc \in {"parsed", "done"}

(* visualize_plan has returned after the parser gave None.                 *)
C10_Witness ==
    /\ pc = "done"
    /\ tree_data = None
    /\ effects = <<"print: Parsing Spark Plan...", "_parse_spark_plan",
                   "print: Failed to generate plan.">>

----------------------------------------------------------------------------
(* Operation modes (C11, C12).                                             *)

OutputActions == {"display", "write", "webbrowser.open"}

Before(s, x, i) == \E j \in 1..(i - 1) : s[j] = x

ImportFailed == Count(effects, "print: Error: IPython is not installed.") > 0

(* The parser is called once, before any output action, and the browser is *)
(* opened only after the write.                                            *)
ParserFirst ==
    /\ Count(effects, "_parse_spark_plan") <= 1
    /\ \A i \in DOMAIN effects :
          effects[i] \in OutputActions => Before(effects, "_parse_spark_plan", i)
    /\ \A i \in DOMAIN effects :
          effects[i] = "webbrowser.open" => Before(effects, "write", i)

(* C11 as claimed: once visualize_plan is over with a parsed tree, notebook *)
(* mode has displayed exactly once and written and opened nothing, and     *)
(* file mode has written exactly once, then opened the browser exactly     *)
(* once, and displayed nothing; the parser ran once and first.             *)
C11_ModesAsClaimed ==
    /\ ParserFirst
    /\ (pc = "done" /\ Truthy(tree_data)) =>
          /\ Count(effects, "_parse_spark_plan") = 1
          /\ notebook =>
                /\ Count(effects, "display") = 1
                /\ Count(effects, "write") = 0
                /\ Count(effects, "webbrowser.open") = 0
          /\ ~notebook =>
                /\ Count(effects, "write") = 1
                /\ Count(effects, "webbrowser.open") = 1
                /\ Count(effects, "display") = 0

(* C11: the same, where the output the mode asks for can be made: in       *)
(* notebook mode the display happens exactly once unless the import of     *)
(* IPython failed, and then not at all; in file mode the write and the     *)
(* opening happen exactly once each, in this order, unless the write       *)
(* raised, and then neither happens and the exception reaches the caller.  *)
C11_OperationModes ==
    /\ ParserFirst
    /\ (pc = "done" /\ Truthy(tree_data)) =>
          /\ Count(effects, "_parse_spark_plan") = 1
          /\ notebook =>
                /\ Count(effects, "display") = (IF ImportFailed THEN 0 ELSE 1)
                /\ Count(effects, "write") = 0
                /\ Count(effects, "webbrowser.open") = 0
                /\ raised = NoExc
          /\ ~notebook =>
                /\ Count(effects, "write") = (IF raised = NoExc THEN 1 ELSE 0)
                /\ Count(effects, "webbrowser.open") = Count(effects, "write")
                /\ Count(effects, "display") = 0

(* visualize_plan is over in file mode: parser, write, browser, in order.  *)
C11_Witness ==
    /\ pc = "done"
    /\ ~notebook
    /\ tree_data.kind = "tree"
    /\ Len(tree_data.data.children) = 2
    /\ effects = <<"print: Parsing Spark Plan...", "_parse_spark_plan",
                   "_build_html_string", "print: Generating Visualization...",
                   "write", "print: Done!", "webbrowser.open">>

(* C12: in notebook mode with a parsed tree, a failed import of IPython    *)
(* ends visualize_plan with no exception, nothing displayed, no file       *)
(* written and no browser opened.                                          *)
C12_MissingIPython ==
    (notebook /\ Truthy(tree_data) /\ ImportFailed) =>
        /\ pc = "done"
        /\ raised = NoExc
        /\ Count(effects, "display") = 0
        /\ Count(effects, "write") = 0
        /\ Count(effects, "webbrowser.open") = 0

(* visualize_plan is over after the import failed on a parsed tree.        *)
C12_Witness ==
    /\ pc = "done"
    /\ notebook
    /\ tree_data.kind = "tree"
    /\ effects = <<"print: Parsing Spark Plan...", "_parse_spark_plan",
                   "_build_html_string", "print: Rendering inline (notebook mode)...",
                   "print: Error: IPython is not installed.">>

----------------------------------------------------------------------------
(* The fields of a node (C13, C14, C15).                                   *)

DescriptionChain == <<"verboseStringWithSuffix", "simpleString", "toString">>

AccessorFails(node, i) ==
    CASE i = 1 -> node.verboseFails
      [] i = 2 -> node.simpleFails
      [] i = 3 -> node.toStringFails

AccessorValue(node, i) ==
    CASE i = 1 -> node.descs.verbose
      [] i = 2 -> node.descs.simple
      [] i = 3 -> node.descs.generic

(* The place in the chain of the first accessor that succeeds, 0 if none.  *)
FirstSuccess(node) ==
    IF \A i \in DOMAIN DescriptionChain : AccessorFails(node, i) THEN 0
    ELSE CHOOSE i \in DOMAIN DescriptionChain :
            /\ ~AccessorFails(node, i)
            /\ \A j \in 1..(i - 1) : AccessorFails(node, j)

IsDescriptionCallOn(c, n) == c[1] = n /\ c[2] \in Range(DescriptionChain)

(* The description accessors the walk called on node n, in order.          *)
DescriptionCallsOn(n) ==
    LET cs == SelectSeq(hostCalls, LAMBDA c : IsDescriptionCallOn(c, n))
    IN  [i \in DOMAIN cs |-> cs[i][2]]

(* C13: on every walked node whose name was read, the description          *)
(* accessors called are the chain up to and including the first one that   *)
(* succeeds (the whole chain when none does), each once and in the chain's *)
(* order, and the node is emitted with the answer of that first success.   *)
C13_DescriptionFallback ==
    (pc = "returned" /\ df.entry = "ok") =>
        \A n \in DOMAIN df.plan :
            LET node == df.plan[n]
                k == FirstSuccess(node)
            IN  (WalksOf(n) # {} /\ ~node.nameFails) =>
                    /\ DescriptionCallsOn(n) =
                           SubSeq(DescriptionChain, 1, IF k = 0 THEN 3 ELSE k)
                    /\ k # 0 =>
                          /\ result.kind = "tree"
                          /\ \E e \in Emitted(df.plan, Root, result.data) : e[1] = n
                          /\ \A e \in Emitted(df.plan, Root, result.data) :
                                e[1] = n => e[2].description = AccessorValue(node, k)

(* A walked child whose first two description accessors raised and whose   *)
(* third answered.                                                         *)
C13_Witness ==
    /\ pc = "returned"
    /\ result.kind = "tree"
    /\ Len(df.plan) = 2
    /\ df.plan[2].verboseFails /\ df.plan[2].simpleFails /\ ~df.plan[2].toStringFails
    /\ Len(result.data.children) = 1
    /\ result.data.children[1].description = df.plan[2].descs.generic
    /\ DescriptionCallsOn(2) = DescriptionChain

(* The entries of a node's metric map that the iteration reached.          *)
EntriesRead(node) ==
    IF node.metricsFailAt = 0 THEN DOMAIN node.metricEntries
    ELSE 1..(node.metricsFailAt - 1)

ValuesRead(node) ==
    {<<node.metricEntries[i].name, node.metricEntries[i].value>> :
        i \in {j \in EntriesRead(node) : ~node.metricEntries[j].valueFails}}

Pairs(dict) == {<<k, dict[k]>> : k \in DOMAIN dict}

(* C14: the metrics of every emitted node are exactly the (name, value)    *)
(* pairs of the entries the iteration of its metric map reached and whose  *)
(* value() answered: an entry whose value() raised is left out, and the    *)
(* entries before and after it are kept.                                   *)
C14_MetricSkipping ==
    (pc = "returned" /\ result.kind = "tree") =>
        \A e \in Emitted(df.plan, Root, result.data) :
            Pairs(e[2].metrics) = ValuesRead(df.plan[e[1]])

(* An emitted child whose second metric of three raised on value().        *)
C14_Witness ==
    /\ pc = "returned"
    /\ result.kind = "tree"
    /\ Len(df.plan) = 2
    /\ Len(df.plan[2].metricEntries) = 3
    /\ df.plan[2].metricsFailAt = 0
    /\ ~df.plan[2].metricEntries[1].valueFails
    /\ df.plan[2].metricEntries[2].valueFails
    /\ ~df.plan[2].metricEntries[3].valueFails
    /\ Len(result.data.children) = 1
    /\ DOMAIN result.data.children[1].metrics =
          {df.plan[2].metricEntries[1].name, df.plan[2].metricEntries[3].name}

(* C15 as claimed: the output of every emitted node is the host's          *)
(* attributes in the host's order when their iteration succeeds, and empty *)
(* when it raises at any point.                                            *)
C15_OutputEmptyOnFailure ==
    (pc = "returned" /\ result.kind = "tree") =>
        \A e \in Emitted(df.plan, Root, result.data) :
            e[2].output = IF df.plan[e[1]].outputFailAt = 0 THEN df.plan[e[1]].attrs
                          ELSE <<>>

----------------------------------------------------------------------------
(* Child order (C16).                                                      *)

(* The host node an output node was built from: its verbose description    *)
(* names it.                                                               *)
BuiltFrom(plan, t) == CHOOSE n \in DOMAIN plan : plan[n].descs.verbose = t.description

(* C16: on a plan without faults, a node resolved by the default rule has  *)
(* as many children as its host child sequence, the i-th being the tree of *)
(* the i-th host child; a node resolved by an indirection has the tree of  *)
(* the target alone, or no child when the accessor returns no plan.        *)
C16_ChildOrder ==
    (pc = "returned" /\ result.kind = "tree") =>
        \A e \in Emitted(df.plan, Root, result.data) :
            LET node == df.plan[e[1]]
                t == e[2]
                rule == ExpectedAccessor(node.name)
            IN  IF rule = "children"
                THEN /\ Len(t.children) = Len(node.kids)
                     /\ \A i \in DOMAIN node.kids :
                           /\ BuiltFrom(df.plan, t.children[i]) = node.kids[i]
                           /\ t.children[i] = WalkNode(df.plan, node.kids[i]).data
                ELSE IF node.target[rule] = 0
                THEN t.children = <<>>
                ELSE /\ Len(t.children) = 1
                     /\ BuiltFrom(df.plan, t.children[1]) = node.target[rule]
                     /\ t.children = <<WalkNode(df.plan, node.target[rule]).data>>

(* A root whose child sequence is not in the order of the node ids, with a *)
(* child that an indirection resolves to one target.                       *)
C16_Witness ==
    /\ pc = "returned"
    /\ result.kind = "tree"
    /\ ExpectedAccessor(df.plan[Root].name) = "children"
    /\ df.plan[Root].kids = <<3, 2>>
    /\ Len(result.data.children) = 2
    /\ BuiltFrom(df.plan, result.data.children[1]) = 3
    /\ BuiltFrom(df.plan, result.data.children[2]) = 2
    /\ ExpectedAccessor(df.plan[2].name) = "child"
    /\ Len(result.data.children[2].children) = 1

----------------------------------------------------------------------------
(* _parse_spark_plan step by step: one frame per call of _walk_node under  *)
(* way.  A frame is the call about to run its body ("call"), or the call   *)
(* in its loop over children_nodes ("loop"), with the data built so far    *)
(* and the children not walked yet.                                        *)

CallFrame(n) == [kind |-> "call", n |-> n, data |-> EmptyDict, todo |-> <<>>]
LoopFrame(n, data, todo) == [kind |-> "loop", n |-> n, data |-> data, todo |-> todo]

Top == stack[Len(stack)]
Callers == SubSeq(stack, 1, Len(stack) - 1)

(* The frames and the return value once the innermost call raises e: the   *)
(* except clause of its caller records e and the caller's loop is over;    *)
(* with no caller, _parse_spark_plan itself raises.                        *)
Propagate(e) ==
    IF Callers = <<>>
    THEN /\ result' = Raised(e)
         /\ pc' = "returned"
         /\ stack' = <<>>
    ELSE LET caller == Callers[Len(Callers)]
         IN  /\ stack' = [Callers EXCEPT ![Len(Callers)] =
                             LoopFrame(caller.n, WithError(caller.data, e), <<>>)]
             /\ UNCHANGED <<result, pc>>

(* plan = df._jdf.queryExecution().executedPlan(); return _walk_node(plan) *)
BeginWalk ==
    /\ pc = "idle"
    /\ IF df.entry = "AttributeError"
       THEN /\ result' = None
            /\ pc' = "returned"
            /\ UNCHANGED stack
       ELSE IF df.entry # "ok"
       THEN /\ result' = Raised(Exc(df.entry, 0))
            /\ pc' = "returned"
            /\ UNCHANGED stack
       ELSE /\ stack' = <<CallFrame(Root)>>
            /\ pc' = "walking"
            /\ UNCHANGED result
    /\ UNCHANGED <<df, hostCalls, notebook, tree_data, effects, raised>>

(* The body of _walk_node up to its loop: the node's fields and the        *)
(* collection of children_nodes.                                           *)
EnterNode ==
    /\ pc = "walking"
    /\ Top.kind = "call"
    /\ LET n == Top.n
           node == df.plan[n]
           c0 == <<<<n, "nodeName">>>>
           d == GetDescription(node, n)
           data == [name |-> node.name,
                    description |-> d.value,
                    output |-> _get_output_info(node),
                    type |-> NodeType(node.name),
                    children |-> <<>>,
                    metrics |-> _get_metric_values(node)]
           c1 == c0 \o d.calls \o <<<<n, "output">>, <<n, "metrics">>>>
           r == CollectChildren(node, n)
       IN  IF node.nameFails
           THEN /\ hostCalls' = hostCalls \o c0
                /\ Propagate(Exc("nodeName", n))
           ELSE IF d.raised
           THEN /\ hostCalls' = hostCalls \o c0 \o d.calls
                /\ Propagate(d.exc)
           ELSE /\ hostCalls' = hostCalls \o c1 \o r.calls
                /\ stack' = [stack EXCEPT ![Len(stack)] =
                                IF r.raised
                                THEN LoopFrame(n, WithError(data, r.exc), <<>>)
                                ELSE LoopFrame(n, data, r.children_nodes)]
                /\ UNCHANGED <<result, pc>>
    /\ UNCHANGED <<df, notebook, tree_data, effects, raised>>

(* CallChild that leaves out a child whose host node was walked before.    *)
CallChildSkipsShared ==
    /\ pc = "walking"
    /\ Top.kind = "loop"
    /\ Top.todo # <<>>
    /\ stack' = IF \E i \in DOMAIN hostCalls : hostCalls[i] = <<Head(Top.todo), "nodeName">>
                THEN [stack EXCEPT ![Len(stack)].todo = Tail(Top.todo)]
                ELSE Append([stack EXCEPT ![Len(stack)].todo = Tail(Top.todo)],
                            CallFrame(Head(Top.todo)))
    /\ UNCHANGED <<df, pc, result, hostCalls, notebook, tree_data, effects, raised>>

(* for child in children_nodes: ... _walk_node(child)                      *)
CallChild ==
    /\ pc = "walking"
    /\ Top.kind = "loop"
    /\ Top.todo # <<>>
    /\ stack' = Append([stack EXCEPT ![Len(stack)].todo = Tail(Top.todo)],
                       CallFrame(Head(Top.todo)))
    /\ UNCHANGED <<df, pc, result, hostCalls, notebook, tree_data, effects, raised>>

(* return data: to the caller's data["children"].append, or to the caller  *)
(* of _parse_spark_plan.                                                   *)
ReturnNode ==
    /\ pc = "walking"
    /\ Top.kind = "loop"
    /\ Top.todo = <<>>
    /\ IF Callers = <<>>
       THEN /\ result' = Tree(Top.data)
            /\ pc' = "returned"
            /\ stack' = <<>>
       ELSE /\ stack' = [Callers EXCEPT ![Len(Callers)].data.children =
                             Append(@, Top.data)]
            /\ UNCHANGED <<result, pc>>
    /\ UNCHANGED <<df, hostCalls, notebook, tree_data, effects, raised>>

NextSteps == BeginWalk \/ EnterNode \/ CallChild \/ ReturnNode

(* Finite acyclic plans without faults: every node is a "Filter" with any  *)
(* child sequence over the later nodes, or is named for one indirection    *)
(* and answers that accessor with a later node or with None.               *)
AccessorNames ==
    [executedPlan |-> AdaptiveName,
     plan |-> <<"Shuffle", "Query", "Stage">>,
     child |-> <<"Reused", "Exchange">>]

StepOptions(n) ==
    {[PlainNode(n) EXCEPT !.kids = ks] : ks \in SeqsOver(Higher(n))}
    \cup {[PlainNode(n) EXCEPT !.name = AccessorNames[a], !.target[a] = t] :
             a \in Accessors, t \in {0} \cup Higher(n)}

StepPlans(size) ==
    {p \in PlansFrom([n \in 1..size |-> StepOptions(n)], size) : WholePlan(p)}

InitSteps == InitOn({Dataframe(p) : p \in StepPlans(MaxNodes)})

(* The interpreter goes on running the call it is in.                      *)
SpecSteps == InitSteps /\ [][NextSteps]_vars /\ WF_vars(NextSteps)

----------------------------------------------------------------------------
(* Termination (C17).                                                      *)

RECURSIVE SumOver(_)
SumOver(s) == IF s = <<>> THEN 0 ELSE Head(s) + SumOver(Tail(s))

(* The number of distinct paths from host node n to host node m, through   *)
(* child sequences and indirection accessors.                              *)
RECURSIVE Paths(_, _, _)
Paths(plan, n, m) ==
    IF n = m THEN 1
    ELSE LET cs == AnswerOf(plan[n], ExpectedAccessor(plan[n].name))
         IN  SumOver([i \in DOMAIN cs |-> Paths(plan, cs[i], m)])

(* The number of nodes of the tree t that were built from host node m.     *)
RECURSIVE Copies(_, _, _)
Copies(plan, t, m) ==
    (IF BuiltFrom(plan, t) = m THEN 1 ELSE 0)
    + SumOver([i \in DOMAIN t.children |-> Copies(plan, t.children[i], m)])

(* The walk agrees with the recursive definition of _walk_node.            *)
WalkAgrees ==
    pc = "returned" =>
        /\ result = _parse_spark_plan(df).ret
        /\ hostCalls = _parse_spark_plan(df).calls

(* C17: on every finite acyclic plan the walk comes to its return, with no *)
(* frame left, and returns a tree that holds each host node once for every *)
(* path that leads from the root to it.                                    *)
C17_Termination ==
    <>[](/\ pc = "returned"
         /\ stack = <<>>
         /\ result.kind = "tree"
         /\ \A m \in DOMAIN df.plan :
               Copies(df.plan, result.data, m) = Paths(df.plan, Root, m))

(* The walk has returned on a plan whose last node two paths reach, one of *)
(* them through an indirection, and the tree holds it twice.               *)
C17_Witness ==
    /\ pc = "returned"
    /\ result.kind = "tree"
    /\ df.plan[Root].kids = <<2, 3>>
    /\ ExpectedAccessor(df.plan[2].name) # "children"
    /\ Paths(df.plan, Root, 3) = 2
    /\ Copies(df.plan, result.data, 3) = 2
    /\ Cardinality(WalksOf(3)) = 2

----------------------------------------------------------------------------
(* Plans of siblings: a "Filter" root with any child sequence over the     *)
(* MaxSiblings later nodes, each of which has no child or one later node   *)
(* as its only child, and builds, or raises on its name accessor, or       *)
(* raises on all three description accessors.                              *)

Later(n) == (n + 1)..(1 + MaxSiblings)

SiblingOptions(n) ==
    IF n = Root
    THEN {[PlainNode(n) EXCEPT !.kids = ks] : ks \in SeqsOver(Later(n))}
    ELSE UNION {
            {[PlainNode(n) EXCEPT !.kids = ks],
             [PlainNode(n) EXCEPT !.kids = ks, !.nameFails = TRUE],
             AllDescriptionsFail([PlainNode(n) EXCEPT !.kids = ks])}
            : ks \in {<<>>} \cup {<<m>> : m \in Later(n)}}

SiblingPlans(size) == PlansFrom([n \in 1..size |-> SiblingOptions(n)], size)

InitSiblings == InitOn({Dataframe(p) : p \in SiblingPlans(1 + MaxSiblings)})

SpecSiblings == InitSiblings /\ [][NextWalk]_vars

(* Whether the walk of the children of P raises at the building of C: the  *)
(* resolution of P answers, C is among the children and is the first of    *)
(* them that does not build.                                               *)
RaisesAt(plan, P, C) ==
    LET cs == AnswerOf(plan[P], ExpectedAccessor(plan[P].name))
    IN  /\ ~ResolutionFails(plan[P])
        /\ \E i \in DOMAIN cs :
              /\ cs[i] = C
              /\ ~Constructs(plan[C])
              /\ \A j \in 1..(i - 1) : Constructs(plan[cs[j]])

EarlierSiblings(plan, P, C) ==
    LET cs == AnswerOf(plan[P], ExpectedAccessor(plan[P].name))
    IN  SubSeq(cs, 1, (CHOOSE i \in DOMAIN cs : cs[i] = C) - 1)

(* C18: when the walk comes to build a node C other than the root and the  *)
(* building raises, the walk returns a tree that holds no node for C, and  *)
(* every emitted parent P whose children were being walked up to C carries *)
(* the error of C and has as children exactly the trees of the siblings    *)
(* before C, in the host's order, and none of those after it.              *)
C18_ChildFaultAttribution ==
    (pc = "returned" /\ df.entry = "ok") =>
        \A C \in (DOMAIN df.plan) \ {Root} :
            (WalksOf(C) # {} /\ ~Constructs(df.plan[C])) =>
                /\ result.kind = "tree"
                /\ \A t \in TreeNodes(result.data) : BuiltFrom(df.plan, t) # C
                /\ \E e \in Emitted(df.plan, Root, result.data) :
                      RaisesAt(df.plan, e[1], C)
                /\ \A e \in Emitted(df.plan, Root, result.data) :
                      RaisesAt(df.plan, e[1], C) =>
                          LET before == EarlierSiblings(df.plan, e[1], C)
                          IN  /\ "error" \in DOMAIN e[2]
                              /\ e[2].error = <<"Traversal Error: ">>
                                                \o ConstructionExc(df.plan[C], C)
                              /\ e[2].children =
                                    [i \in DOMAIN before |->
                                        WalkNode(df.plan, before[i]).data]

(* A root with three children of which the second does not build: the      *)
(* first is kept, the third is absent, the root carries the error.         *)
C18_Witness ==
    /\ pc = "returned"
    /\ result.kind = "tree"
    /\ df.plan[Root].kids = <<4, 2, 3>>
    /\ Constructs(df.plan[4])
    /\ ~Constructs(df.plan[2])
    /\ Constructs(df.plan[3])
    /\ "error" \in DOMAIN result.data
    /\ Len(result.data.children) = 1
    /\ BuiltFrom(df.plan, result.data.children[1]) = 4
    /\ WalksOf(3) = {}

----------------------------------------------------------------------------
(* Collect-then-recurse (C19).                                             *)

(* 1 if a walk of P hands C over to _walk_node, 0 if not: P builds, the    *)
(* collection of its children does not raise, and no child before C        *)
(* raises.                                                                 *)
HandsOver(plan, P, C) ==
    LET cs == AnswerOf(plan[P], ExpectedAccessor(plan[P].name))
    IN  IF /\ Constructs(plan[P])
           /\ ~ResolutionFails(plan[P])
           /\ \E i \in DOMAIN cs :
                 cs[i] = C /\ \A j \in 1..(i - 1) : Constructs(plan[cs[j]])
        THEN 1 ELSE 0

(* Whether the traversal of node n meets a fault: the collection of its    *)
(* children raises, or the building of one of them does.                   *)
TraversalFault(plan, n) ==
    \/ ResolutionFails(plan[n])
    \/ \E C \in DOMAIN plan : RaisesAt(plan, n, C)

(* C19: a node is walked once for every walk of a parent that collected    *)
(* its children without raising and reached it; a node whose child         *)
(* iteration raised, whatever it had yielded, hands no child over, has no  *)
(* children and carries the error of the iteration; and a node carries an  *)
(* error only if its traversal met a fault.                                *)
C19_CollectThenRecurse ==
    (pc = "returned" /\ df.entry = "ok") =>
        /\ \A m \in DOMAIN df.plan :
              Cardinality(WalksOf(m)) =
                  (IF m = Root THEN 1 ELSE 0)
                  + SumOver([P \in 1..(m - 1) |->
                                Cardinality(WalksOf(P)) * HandsOver(df.plan, P, m)])
        /\ result.kind = "tree" =>
              \A e \in Emitted(df.plan, Root, result.data) :
                  LET node == df.plan[e[1]]
                      t == e[2]
                  IN  /\ (ExpectedAccessor(node.name) = "children" /\ node.kidsFailAt # 0) =>
                            /\ t.children = <<>>
                            /\ "error" \in DOMAIN t
                            /\ t.error = <<"Traversal Error: ">> \o Exc("children", e[1])
                      /\ "error" \in DOMAIN t <=> TraversalFault(df.plan, e[1])

(* A child whose iteration raised after it had yielded the last node: it   *)
(* has no children and carries the error, and the last node was walked     *)
(* once only, as the child of the root that it also is.                    *)
C19_Witness ==
    /\ pc = "returned"
    /\ result.kind = "tree"
    /\ df.plan[Root].kids = <<2, 3>>
    /\ df.plan[2].kids = <<3>>
    /\ df.plan[2].kidsFailAt = 2
    /\ Constructs(df.plan[3])
    /\ Len(result.data.children) = 2
    /\ result.data.children[1].children = <<>>
    /\ "error" \in DOMAIN result.data.children[1]
    /\ "error" \notin DOMAIN result.data
    /\ Cardinality(WalksOf(3)) = 1

====
